---- MODULE Spec2Model ----
(***************************************************************************)
(* Cycle calculators of the calendar prototype: the history averager       *)
(* (CycleHistoryCalculator), the predictor (OvulationPredictor) in its     *)
(* rich (app.py) and simple (main.py) variants, the threshold rounding     *)
(* (apply_custom_rounding) and the Algo #01 page that keeps the session's  *)
(* history list.                                                           *)
(*                                                                         *)
(* Dates are day ordinals (integers); a timedelta is a number of days.     *)
(* Python floats are IEEE binary64 values and are modelled bit for bit: a  *)
(* non-negative float is [ip, fr], its integer part and the sequence of    *)
(* its fractional binary digits.                                           *)
(***************************************************************************)
EXTENDS Integers, Sequences, FiniteSets, TLC

VARIABLES
    pc,            \* "input": arguments chosen, "returned": the call has run
    value,         \* apply_custom_rounding: the argument, in hundredths
    rounded,       \* apply_custom_rounding: the returned integer
    start_date,    \* validate_single_entry: argument
    end_date,      \* validate_single_entry: argument
    validated,     \* validate_single_entry: [ok, duration | error]
    history_data,  \* process_history: the caller's list (mutable, passed by reference)
    passed,        \* process_history: the list as it was when the call was made
    averages,      \* process_history: result of the app.py variant
    averagesMain,  \* process_history: result of the main.py variant
    p_start,       \* Algo #02 widget: cycle start date
    p_bleed,       \* Algo #02 widget: bleed duration, in tenths
    p_cycle,       \* Algo #02 widget: cycle duration, in tenths
    prediction,    \* predict: result of the app.py variant
    predictionMain,\* predict: result of the main.py variant
    fertile_view,  \* Algo #02: what the Fertile Window section of app.py shows
    history,       \* st.session_state['history']
    display_data,  \* Algo #01: the rows of the cycle table of the last script run
    page           \* Algo #01: what the last script run rendered

vars == <<pc, value, rounded, start_date, end_date, validated, history_data,
          passed, averages, averagesMain, p_start, p_bleed, p_cycle,
          prediction, predictionMain, fertile_view, history, display_data, page>>

roundVars == <<value, rounded>>
validateVars == <<start_date, end_date, validated>>
historyVars == <<history_data, passed, averages, averagesMain>>
predictVars == <<p_start, p_bleed, p_cycle, prediction, predictionMain, fertile_view>>
sessionVars == <<history, display_data, page>>

(***************************************************************************)
(* Python float arithmetic (IEEE binary64, round to nearest, ties to even) *)
(***************************************************************************)

\* Significand width of a Python float.
MantissaBits == 53

RECURSIVE BitLen(_)
\* Number of binary digits of a non-negative integer.
BitLen(k) == IF k = 0 THEN 0 ELSE 1 + BitLen(k \div 2)

RECURSIVE LeadZeros(_, _)
\* Number of zero digits before the first one in the binary expansion of r/d, 0 < r < d.
LeadZeros(r, d) == IF 2 * r >= d THEN 0 ELSE 1 + LeadZeros(2 * r, d)

RECURSIVE Expand(_, _, _)
\* The first n binary digits of r/d (0 <= r < d) and the remainder left over
\* (long division, computed by halves to keep the evaluation shallow).
Expand(r, d, n) ==
    IF n = 0 THEN [bits |-> <<>>, rem |-> r]
    ELSE IF n = 1
         THEN LET b == IF 2 * r >= d THEN 1 ELSE 0
              IN  [bits |-> <<b>>, rem |-> 2 * r - b * d]
         ELSE LET h == n \div 2
                  a == Expand(r, d, h)
                  t == Expand(a.rem, d, n - h)
              IN  [bits |-> a.bits \o t.bits, rem |-> t.rem]

\* bits + one unit in the last place; carry tells that the digits overflowed.
IncBits(bits) ==
    LET Z == {i \in 1..Len(bits) : bits[i] = 0}
    IN  IF Z = {} THEN [bits |-> [i \in 1..Len(bits) |-> 0], carry |-> 1]
        ELSE LET m == CHOOSE i \in Z : \A j \in Z : j <= i
             IN  [bits |-> [i \in 1..Len(bits) |->
                              IF i < m THEN bits[i] ELSE IF i = m THEN 1 ELSE 0],
                  carry |-> 0]

\* The float a / d for integers a >= 0, d > 0: the quotient correctly rounded to
\* MantissaBits significant digits. A decimal literal or widget value n/d is the same float.
FloatDiv(a, d) ==
    LET k == a \div d
        r == a % d
        p == IF k > 0 THEN MantissaBits - BitLen(k)
             ELSE IF r = 0 THEN 0 ELSE MantissaBits + LeadZeros(r, d)
        e == Expand(r, d, p)
        odd == IF p = 0 THEN k % 2 = 1 ELSE e.bits[p] = 1
        up == 2 * e.rem > d \/ (2 * e.rem = d /\ odd)
        inc == IncBits(e.bits)
    IN  IF ~up THEN [ip |-> k, fr |-> e.bits]
        ELSE [ip |-> k + inc.carry, fr |-> inc.bits]

\* math.floor and math.ceil of a float.
Floor(x) == x.ip
Ceil(x) == IF \E i \in 1..Len(x.fr) : x.fr[i] = 1 THEN x.ip + 1 ELSE x.ip

\* value - math.floor(value): the difference has no more digits than value, so the
\* subtraction is exact.
FracPart(x) == [ip |-> 0, fr |-> x.fr]

Digit(bits, i) == IF i <= Len(bits) THEN bits[i] ELSE 0

\* x >= y on floats.
FloatGe(x, y) ==
    \/ x.ip > y.ip
    \/ /\ x.ip = y.ip
       /\ LET n == IF Len(x.fr) > Len(y.fr) THEN Len(x.fr) ELSE Len(y.fr)
              D == {i \in 1..n : Digit(x.fr, i) # Digit(y.fr, i)}
          IN  \/ D = {}
              \/ LET m == CHOOSE i \in D : \A j \in D : i <= j
                 IN  Digit(x.fr, m) = 1

(***************************************************************************)
(* apply_custom_rounding                                                   *)
(***************************************************************************)

\* The literal 0.6 of the comparison.
Threshold == FloatDiv(6, 10)

apply_custom_rounding(x) ==
    LET decimal_part == FracPart(x)
    IN  IF FloatGe(decimal_part, Threshold) THEN Ceil(x) ELSE Floor(x)

(***************************************************************************)
(* CycleHistoryCalculator                                                  *)
(***************************************************************************)

\* Smallest and largest accepted bleed duration, in days.
MinDuration == 3
MaxDuration == 10

\* Cycle average reported when the history holds no gap.
DefaultCycle == 28

\* Mutant: the check of the longest duration left out.
validate_single_entry_unbounded(start, end) ==
    LET duration == (end - start) + 1
    IN  IF duration < MinDuration
        THEN [ok |-> FALSE, error |-> "too short", duration |-> duration]
        ELSE [ok |-> TRUE, error |-> "", duration |-> duration]

\* Mutant: the duration counted exclusively (end - start).
validate_single_entry_exclusive(start, end) ==
    LET duration == end - start
    IN  IF duration < MinDuration
        THEN [ok |-> FALSE, error |-> "too short", duration |-> duration]
        ELSE IF duration > MaxDuration
             THEN [ok |-> FALSE, error |-> "too long", duration |-> duration]
             ELSE [ok |-> TRUE, error |-> "", duration |-> duration]

\* Returns the duration, or raises ValueError (ok = FALSE).
validate_single_entry(start, end) ==
    LET duration == (end - start) + 1
    IN  IF duration < MinDuration
        THEN [ok |-> FALSE, error |-> "too short", duration |-> duration]
        ELSE IF duration > MaxDuration
             THEN [ok |-> FALSE, error |-> "too long", duration |-> duration]
             ELSE [ok |-> TRUE, error |-> "", duration |-> duration]

\* One step of the stable sort: x goes after every entry whose start is not later.
InsertByStart(sorted, x) ==
    LET before == {i \in 1..Len(sorted) : sorted[i].start <= x.start}
        n == Cardinality(before)
    IN  SubSeq(sorted, 1, n) \o <<x>> \o SubSeq(sorted, n + 1, Len(sorted))

RECURSIVE SortPrefix(_, _)
SortPrefix(list, n) ==
    IF n = 0 THEN <<>> ELSE InsertByStart(SortPrefix(list, n - 1), list[n])

\* Mutant: the sort left out.
SortByStart_none(list) == list

\* history_data.sort(key=lambda x: x['start']): ascending by start, stable.
SortByStart(list) == SortPrefix(list, Len(list))

RECURSIVE SumSeq(_)
SumSeq(q) == IF q = <<>> THEN 0 ELSE q[1] + SumSeq(Tail(q))

\* The validation loop over the (sorted) list: the durations, or the first failure.
ValidateAll(list) ==
    LET checks == [i \in 1..Len(list) |-> validate_single_entry(list[i].start, list[i].end)]
        failed == {i \in 1..Len(list) : ~checks[i].ok}
    IN  IF failed = {}
        THEN [ok |-> TRUE, error |-> "",
              bleed_durations |-> [i \in 1..Len(list) |-> checks[i].duration]]
        ELSE [ok |-> FALSE,
              error |-> checks[CHOOSE i \in failed : \A j \in failed : i <= j].error,
              bleed_durations |-> <<>>]

\* Differences in days between consecutive start dates of the list.
CycleGaps(list) ==
    IF Len(list) > 1
    THEN [i \in 1..(Len(list) - 1) |-> list[i + 1].start - list[i].start]
    ELSE <<>>

\* Mutant: the mean of the gaps floored.
CycleAverage_floor(cycle_gaps) ==
    IF cycle_gaps = <<>> THEN DefaultCycle
    ELSE Floor(FloatDiv(SumSeq(cycle_gaps), Len(cycle_gaps)))

\* Cycle average: 28 without gaps, else math.ceil of the float mean.
CycleAverage(cycle_gaps) ==
    IF cycle_gaps = <<>> THEN DefaultCycle
    ELSE Ceil(FloatDiv(SumSeq(cycle_gaps), Len(cycle_gaps)))

\* Bleed average of app.py: the threshold rounding of the float mean.
BleedAverage(bleed_durations) ==
    IF Len(bleed_durations) = 1 THEN bleed_durations[1]
    ELSE apply_custom_rounding(FloatDiv(SumSeq(bleed_durations), Len(bleed_durations)))

\* Bleed average of main.py: math.floor of the float mean.
BleedAverageMain(bleed_durations) ==
    IF Len(bleed_durations) = 1 THEN bleed_durations[1]
    ELSE Floor(FloatDiv(SumSeq(bleed_durations), Len(bleed_durations)))

NoResult == [kind |-> "none"]

\* Mutant: a sorted copy is used and the caller's list is left alone.
ListAfterCall_copy(list) == list

\* What a call does to the list object it is given: nothing when the list is empty,
\* else the in-place sort (which runs before any validation can fail).
ListAfterCall(list) == IF list = <<>> THEN list ELSE SortByStart(list)

\* process_history of app.py. list: the caller's list object after the call;
\* ret: None (kind "none"), a raised ValueError (kind "error") or the result dict.
process_history(list) ==
    LET sorted == ListAfterCall(list)
        v == ValidateAll(sorted)
        cycle_gaps == CycleGaps(sorted)
    IN  [list |-> sorted,
         ret |-> IF list = <<>> THEN NoResult
                 ELSE IF ~v.ok THEN [kind |-> "error", error |-> v.error]
                 ELSE [kind |-> "ok",
                       bleed_avg |-> BleedAverage(v.bleed_durations),
                       cycle_avg |-> CycleAverage(cycle_gaps),
                       total_cycles |-> Len(sorted),
                       cycle_gaps |-> cycle_gaps]]

\* process_history of main.py: the same statements, the bleed average floored.
process_history_main(list) ==
    LET sorted == ListAfterCall(list)
        v == ValidateAll(sorted)
        cycle_gaps == CycleGaps(sorted)
    IN  [list |-> sorted,
         ret |-> IF list = <<>> THEN NoResult
                 ELSE IF ~v.ok THEN [kind |-> "error", error |-> v.error]
                 ELSE [kind |-> "ok",
                       bleed_avg |-> BleedAverageMain(v.bleed_durations),
                       cycle_avg |-> CycleAverage(cycle_gaps),
                       total_cycles |-> Len(sorted),
                       cycle_gaps |-> cycle_gaps]]

(***************************************************************************)
(* OvulationPredictor                                                      *)
(***************************************************************************)

CRASH_1 == 2
NURTURE == 6
CRASH_2 == 3

MinBleed == 3
MaxBleed == 10
MinCycle == 21
MaxCycle == 35

\* Mutant: the cap of a 21-day cycle entered as 6.
MaxAllowed_shifted(cycle) ==
    CASE cycle = 21 -> 6
      [] cycle = 22 -> 6
      [] cycle = 23 -> 7
      [] cycle = 24 -> 8
      [] cycle = 25 -> 9
      [] OTHER -> MaxBleed

\* max_map.get(cycle, 10)
MaxAllowed(cycle) ==
    CASE cycle = 21 -> 5
      [] cycle = 22 -> 6
      [] cycle = 23 -> 7
      [] cycle = 24 -> 8
      [] cycle = 25 -> 9
      [] OTHER -> 10

\* Mutant: the check of the bleed against the cap of the cycle left out.
Validation_uncapped(bleed, cycle) ==
    IF ~(MinBleed <= bleed /\ bleed <= MaxBleed) THEN "bleed range"
    ELSE IF ~(MinCycle <= cycle /\ cycle <= MaxCycle) THEN "cycle range"
    ELSE "none"

\* Steps 2 and 3 of predict: the ValueError raised for the rounded values, or none.
Validation(bleed, cycle) ==
    IF ~(MinBleed <= bleed /\ bleed <= MaxBleed) THEN "bleed range"
    ELSE IF ~(MinCycle <= cycle /\ cycle <= MaxCycle) THEN "cycle range"
    ELSE IF bleed > MaxAllowed(cycle) THEN "max bleed"
    ELSE "none"

\* Mutant: CRASH_2 left out of constants_sum.
PowerWeek_short(bleed, cycle) == cycle - (bleed + (CRASH_1 + NURTURE))

\* power_week_duration = cycle - (bleed + constants_sum)
PowerWeek(bleed, cycle) == cycle - (bleed + (CRASH_1 + NURTURE + CRASH_2))

Phase(name, start, days) ==
    [Phase |-> name, Start |-> start, End |-> start + (days - 1), Days |-> days]

\* Step 4 of predict: the five phases, each starting the day after the previous end.
Timeline(start_date_obj, bleed, power_week_duration) ==
    LET p1 == Phase("Bleed", start_date_obj, bleed)
        p2 == Phase("PowerWeek", p1.End + 1, power_week_duration)
        p3 == Phase("Crash1", p2.End + 1, CRASH_1)
        p4 == Phase("Nurture", p3.End + 1, NURTURE)
        p5 == Phase("Crash2", p4.End + 1, CRASH_2)
    IN  <<p1, p2, p3, p4, p5>>

\* Mutant: the Power Week left out of main_ovulation_day_num.
MainDate_early(start_date_obj, bleed, power_week_duration) ==
    LET main_ovulation_day_num == bleed - 2
    IN  start_date_obj + (main_ovulation_day_num - 1)

\* main_date = start_date_obj + timedelta(days=main_ovulation_day_num - 1)
MainDate(start_date_obj, bleed, power_week_duration) ==
    LET main_ovulation_day_num == (bleed + power_week_duration) - 2
    IN  start_date_obj + (main_ovulation_day_num - 1)

\* The six dates main_date - 4 .. main_date + 1.
RawBabyDays(main_date) ==
    <<main_date - 4, main_date - 3, main_date - 2, main_date - 1, main_date, main_date + 1>>

\* Mutant: the last bleed day is kept (d >= bleed_end).
KeepAfter_inclusive(raw_baby_days, bleed_end) ==
    LET kept == {i \in 1..Len(raw_baby_days) : raw_baby_days[i] >= bleed_end}
    IN  [n \in 1..Cardinality(kept) |->
            raw_baby_days[CHOOSE i \in kept : Cardinality({j \in kept : j < i}) = n - 1]]

\* Mutant: the comparison turned round (d < bleed_end).
KeepAfter_reversed(raw_baby_days, bleed_end) ==
    LET kept == {i \in 1..Len(raw_baby_days) : raw_baby_days[i] < bleed_end}
    IN  [n \in 1..Cardinality(kept) |->
            raw_baby_days[CHOOSE i \in kept : Cardinality({j \in kept : j < i}) = n - 1]]

\* [d for d in raw_baby_days if d > bleed_end]
KeepAfter(raw_baby_days, bleed_end) ==
    LET kept == {i \in 1..Len(raw_baby_days) : raw_baby_days[i] > bleed_end}
    IN  [n \in 1..Cardinality(kept) |->
            raw_baby_days[CHOOSE i \in kept : Cardinality({j \in kept : j < i}) = n - 1]]

\* Mutant: the Power Week rule applied below 5 days only.
BabyDays_strict(start_date_obj, bleed, power_week_duration) ==
    LET bleed_end == start_date_obj + (bleed - 1)
        pw_start == bleed_end + 1
        main_date == MainDate(start_date_obj, bleed, power_week_duration)
    IN  IF power_week_duration < 5
        THEN [i \in 1..power_week_duration |-> pw_start + (i - 1)]
        ELSE KeepAfter(RawBabyDays(main_date), bleed_end)

\* The fertile days of app.py: the Power Week when it lasts at most 5 days, else the
\* six dates without those on or before the end of the bleed.
BabyDays(start_date_obj, bleed, power_week_duration) ==
    LET bleed_end == start_date_obj + (bleed - 1)
        pw_start == bleed_end + 1
        main_date == MainDate(start_date_obj, bleed, power_week_duration)
    IN  IF power_week_duration <= 5
        THEN [i \in 1..power_week_duration |-> pw_start + (i - 1)]
        ELSE KeepAfter(RawBabyDays(main_date), bleed_end)

\* Day 0 is the default of the start date input, 1 January 2026; the dates of the
\* model stay within that year.
MonthLengths == <<31, 28, 31, 30, 31, 30, 31, 31, 30, 31, 30, 31>>

RECURSIVE MonthOf(_, _)
\* The month and day of the month of the n-th day (from 0) counted from month m.
MonthOf(n, m) ==
    IF n < MonthLengths[m] THEN [month |-> m, day |-> n + 1]
    ELSE MonthOf(n - MonthLengths[m], m + 1)

\* str(d) of a date: year, month and day as in "2026-01-05".
IsoDate(d) == [year |-> 2026, month |-> MonthOf(d, 1).month, day |-> MonthOf(d, 1).day]

\* d.strftime("%d %b"): day and month as in "05 Jan".
DayMonth(d) == [day |-> MonthOf(d, 1).day, month |-> MonthOf(d, 1).month]

\* One interval of the export.
JsonSpan(start, end, color) == [start |-> IsoDate(start), end |-> IsoDate(end), color |-> color]

\* json_data of predict: the fertile days are exported by their first and last date,
\* or by two empty strings when there is none.
JsonData(timeline, vacation_mode, main_date, final_baby_days) ==
    [bleed_week |-> JsonSpan(timeline[1].Start, timeline[1].End, "0xFFE91E63"),
     power_week |-> JsonSpan(timeline[2].Start, timeline[2].End, "0xFF68D20D"),
     vacation_mode |-> JsonSpan(vacation_mode.start, vacation_mode.end, "0xFFFFFF00"),
     main_ovulation_day |-> IsoDate(main_date),
     ovulation_days |->
        [start |-> IF final_baby_days # <<>> THEN IsoDate(final_baby_days[1]) ELSE "",
         end |-> IF final_baby_days # <<>>
                 THEN IsoDate(final_baby_days[Len(final_baby_days)]) ELSE "",
         color |-> "0xFFFFC0CB"],
     crash_round_1 |-> JsonSpan(timeline[3].Start, timeline[3].End, "0xFFFFC107"),
     nurture_week |-> JsonSpan(timeline[4].Start, timeline[4].End, "0xFF8E8E8E"),
     crash_round_2 |-> JsonSpan(timeline[5].Start, timeline[5].End, "0xFFFFC107")]

\* The dictionary predict returns once the rounded values are accepted (app.py).
Result(start_date_obj, bleed, cycle) ==
    LET power_week_duration == PowerWeek(bleed, cycle)
        timeline == Timeline(start_date_obj, bleed, power_week_duration)
        main_date == MainDate(start_date_obj, bleed, power_week_duration)
        final_baby_days == BabyDays(start_date_obj, bleed, power_week_duration)
        vacation_mode == [start |-> timeline[1].End - 1, end |-> timeline[2].End]
    IN  [kind |-> "ok",
         rounded_bleed |-> bleed,
         rounded_cycle |-> cycle,
         power_week |-> power_week_duration,
         main_date |-> main_date,
         baby_days |-> final_baby_days,
         timeline |-> timeline,
         logic_used |-> IF power_week_duration <= 5 THEN "Power Week Rule"
                        ELSE "Standard Rule",
         vacation_mode |-> vacation_mode,
         json_output |-> JsonData(timeline, vacation_mode, main_date, final_baby_days)]

\* The dictionary predict returns once the rounded values are accepted (main.py).
ResultMain(start_date_obj, bleed, cycle) ==
    LET power_week == PowerWeek(bleed, cycle)
        main_date == MainDate(start_date_obj, bleed, power_week)
    IN  [kind |-> "ok",
         rounded_bleed |-> bleed,
         rounded_cycle |-> cycle,
         power_week |-> power_week,
         main_date |-> main_date,
         baby_days |-> RawBabyDays(main_date),
         timeline |-> Timeline(start_date_obj, bleed, power_week)]

\* predict of app.py: the bleed rounded by the threshold rule, the cycle by math.ceil.
predict(start_date_obj, raw_bleed, raw_cycle) ==
    LET bleed == apply_custom_rounding(raw_bleed)
        cycle == Ceil(raw_cycle)
        error == Validation(bleed, cycle)
    IN  IF error # "none"
        THEN [kind |-> "error", error |-> error, bleed |-> bleed, cycle |-> cycle]
        ELSE Result(start_date_obj, bleed, cycle)

\* predict of main.py: the bleed rounded by math.floor, the cycle by math.ceil.
predict_main(start_date_obj, raw_bleed, raw_cycle) ==
    LET bleed == Floor(raw_bleed)
        cycle == Ceil(raw_cycle)
        error == Validation(bleed, cycle)
    IN  IF error # "none"
        THEN [kind |-> "error", error |-> error, bleed |-> bleed, cycle |-> cycle]
        ELSE ResultMain(start_date_obj, bleed, cycle)

(***************************************************************************)
(* Bounds of the inputs                                                    *)
(***************************************************************************)

\* Dates range over 0..MaxDay.
MaxDay == 3
\* Longest history list.
MaxHist == 3
\* Largest argument of the rounding, in whole days (the argument has two decimals).
MaxValue == 15

\* Cycle start dates range over 0..MaxStart.
MaxStart == 1
\* The number inputs of the Algo #02 page step by 0.1; the values offered go Margin
\* whole days beyond the accepted ranges on either side.
Margin == 1

Days == 0..MaxDay
\* Durations of the intervals offered: the accepted extremes and their neighbours.
Durations == {MinDuration - 1, MinDuration, MaxDuration, MaxDuration + 1}
Intervals == {[start |-> s, end |-> s + d - 1] : s \in Days, d \in Durations}
Lists == UNION {[1..n -> Intervals] : n \in 0..MaxHist}

(***************************************************************************)
(* Idle values of the variables a specification does not use               *)
(***************************************************************************)

IdleRound == value = 0 /\ rounded = 0
IdleValidate == start_date = 0 /\ end_date = 0 /\ validated = NoResult
IdleHistory ==
    history_data = <<>> /\ passed = <<>> /\ averages = NoResult /\ averagesMain = NoResult
IdlePredict ==
    p_start = 0 /\ p_bleed = 0 /\ p_cycle = 0 /\ prediction = NoResult
    /\ predictionMain = NoResult /\ fertile_view = NoResult
IdleSession == history = <<>> /\ display_data = <<>> /\ page = NoResult

(***************************************************************************)
(* SpecRounding: apply_custom_rounding on every two-decimal value          *)
(***************************************************************************)

InitRounding ==
    /\ pc = "input"
    /\ value \in 0..(MaxValue * 100)
    /\ rounded = 0
    /\ IdleValidate /\ IdleHistory /\ IdlePredict /\ IdleSession

Round ==
    /\ pc = "input"
    /\ rounded' = apply_custom_rounding(FloatDiv(value, 100))
    /\ pc' = "returned"
    /\ UNCHANGED <<value, validateVars, historyVars, predictVars, sessionVars>>

SpecRounding == InitRounding /\ [][Round]_vars

(***************************************************************************)
(* SpecValidate: validate_single_entry on every pair of dates              *)
(***************************************************************************)

InitValidate ==
    /\ pc = "input"
    /\ start_date \in Days
    /\ end_date \in 0..(MaxDay + MaxDuration + 1)
    /\ validated = NoResult
    /\ IdleRound /\ IdleHistory /\ IdlePredict /\ IdleSession

Validate ==
    /\ pc = "input"
    /\ validated' = validate_single_entry(start_date, end_date)
    /\ pc' = "returned"
    /\ UNCHANGED <<start_date, end_date, roundVars, historyVars, predictVars, sessionVars>>

SpecValidate == InitValidate /\ [][Validate]_vars

(***************************************************************************)
(* SpecHistory: process_history called on an arbitrary list                *)
(***************************************************************************)

InitHistory ==
    /\ pc = "input"
    /\ history_data \in Lists
    /\ passed = history_data
    /\ averages = NoResult
    /\ averagesMain = NoResult
    /\ IdleRound /\ IdleValidate /\ IdlePredict /\ IdleSession

\* The call of either variant on the same list: both leave the list the same way.
ProcessHistory ==
    /\ pc = "input"
    /\ history_data' = process_history(history_data).list
    /\ averages' = process_history(history_data).ret
    /\ averagesMain' = process_history_main(history_data).ret
    /\ pc' = "returned"
    /\ UNCHANGED <<passed, roundVars, validateVars, predictVars, sessionVars>>

SpecHistory == InitHistory /\ [][ProcessHistory]_vars

(***************************************************************************)
(* SpecPredict: the Generate button of the Algo #02 page, in both variants *)
(***************************************************************************)

\* Section 3 of the Algo #02 page of app.py: the warning when no fertile day is left,
\* else one column per fertile day, the main ovulation day marked; nothing of it when
\* predict raised.
FertileView(res) ==
    IF res.kind # "ok" THEN [kind |-> "error"]
    ELSE IF Len(res.baby_days) = 0 THEN [kind |-> "warning"]
    ELSE [kind |-> "columns",
          cols |-> [i \in 1..Len(res.baby_days) |->
                      [date_str |-> DayMonth(res.baby_days[i]),
                       is_main |-> res.baby_days[i] = res.main_date]],
          note |-> res.logic_used = "Standard Rule"]

\* The float of every widget value n/10, computed once.
WidgetFloat == [n \in 0..((MaxCycle + Margin) * 10) |-> FloatDiv(n, 10)]

InitPredict ==
    /\ pc = "input"
    /\ p_start \in 0..MaxStart
    /\ p_bleed \in ((MinBleed - Margin) * 10)..((MaxBleed + Margin) * 10)
    /\ p_cycle \in ((MinCycle - Margin) * 10)..((MaxCycle + Margin) * 10)
    /\ prediction = NoResult
    /\ predictionMain = NoResult
    /\ fertile_view = NoResult
    /\ IdleRound /\ IdleValidate /\ IdleHistory /\ IdleSession

Generate ==
    /\ pc = "input"
    /\ LET raw_bleed == WidgetFloat[p_bleed]
           raw_cycle == WidgetFloat[p_cycle]
       IN  /\ prediction' = predict(p_start, raw_bleed, raw_cycle)
           /\ predictionMain' = predict_main(p_start, raw_bleed, raw_cycle)
           /\ fertile_view' = FertileView(predict(p_start, raw_bleed, raw_cycle))
    /\ pc' = "returned"
    /\ UNCHANGED <<p_start, p_bleed, p_cycle, roundVars, validateVars, historyVars,
                   sessionVars>>

SpecPredict == InitPredict /\ [][Generate]_vars

(***************************************************************************)
(* Spec: the Algo #01 page. Every action is one run of the script, from the *)
(* form handler to the rendering of the results column.                    *)
(***************************************************************************)

\* The rows of the cycle table, built from the list as it is when the column renders.
DisplayRows(list) ==
    [i \in 1..Len(list) |->
        [Cycle |-> i, Start |-> list[i].start, End |-> list[i].end,
         Duration |-> (list[i].end - list[i].start) + 1]]

\* The results column: the table first, then process_history on the session's list
\* itself (which sorts it), or the warning when the list is empty.
RenderResults(list, msg) ==
    /\ display_data' = DisplayRows(list)
    /\ history' = process_history(list).list
    /\ page' = [kind |-> "page", msg |-> msg,
                result |-> IF list = <<>> THEN [kind |-> "warning"]
                           ELSE process_history(list).ret]

\* The first run of the script: an empty history and the warning.
Init ==
    /\ pc = "session"
    /\ history = <<>>
    /\ display_data = <<>>
    /\ page = [kind |-> "page", msg |-> "", result |-> [kind |-> "warning"]]
    /\ IdleRound /\ IdleValidate /\ IdleHistory /\ IdlePredict

\* "Add to History" submitted with the two dates of the form.
Submit(h_start, h_end) ==
    /\ Len(history) < MaxHist
    /\ LET check == validate_single_entry(h_start, h_end)
       IN  IF check.ok
           THEN RenderResults(Append(history, [start |-> h_start, end |-> h_end]), "Added!")
           ELSE RenderResults(history, check.error)
    /\ UNCHANGED <<pc, roundVars, validateVars, historyVars, predictVars>>

\* "Reset History": the list is replaced by an empty one and the script runs again.
ResetHistory ==
    /\ RenderResults(<<>>, "")
    /\ UNCHANGED <<pc, roundVars, validateVars, historyVars, predictVars>>

\* Any other run of the script (the page is shown again): nothing is submitted.
Rerun ==
    /\ RenderResults(history, "")
    /\ UNCHANGED <<pc, roundVars, validateVars, historyVars, predictVars>>

Next ==
    \/ \E h_start \in Days, d \in Durations : Submit(h_start, h_start + d - 1)
    \/ ResetHistory
    \/ Rerun

Spec == Init /\ [][Next]_vars

(***************************************************************************)
(* Properties of apply_custom_rounding (SpecRounding)                      *)
(***************************************************************************)

\* C3: apply_custom_rounding rounds a value up exactly when its decimal fraction is
\* at least 0.60 and down otherwise (5.50 -> 5, 5.59 -> 5, 5.60 -> 6, 5.99 -> 6).
C3_ThresholdRounding ==
    pc = "returned" =>
        rounded = IF value % 100 >= 60 THEN (value \div 100) + 1 ELSE value \div 100

(***************************************************************************)
(* Properties of validate_single_entry (SpecValidate)                      *)
(***************************************************************************)

\* C6: validate_single_entry returns (end - start) + 1 when that duration is 3..10,
\* and raises "too short" below 3 and "too long" above 10.
C6_ValidateSingleEntry ==
    pc = "returned" =>
        LET d == (end_date - start_date) + 1
        IN  /\ d \in 3..10 => validated.ok /\ validated.duration = d
            /\ d < 3 => ~validated.ok /\ validated.error = "too short"
            /\ d > 10 => ~validated.ok /\ validated.error = "too long"

\* C6 witness: an interval of 11 days has been rejected as too long.
C6_Witness ==
    /\ pc = "returned"
    /\ (end_date - start_date) + 1 = 11
    /\ ~validated.ok
    /\ validated.error = "too long"

(***************************************************************************)
(* Properties of process_history (SpecHistory)                             *)
(***************************************************************************)

Range(q) == {q[i] : i \in 1..Len(q)}

\* The rearrangements of a list.
Rearrangements(q) ==
    {[i \in 1..Len(q) |-> q[f[i]]] :
        f \in {g \in [1..Len(q) -> 1..Len(q)] :
                  \A i, j \in 1..Len(q) : i # j => g[i] # g[j]}}

AllValid(q) == \A i \in 1..Len(q) : (q[i].end - q[i].start) + 1 \in 3..10
DistinctStarts(q) == \A i, j \in 1..Len(q) : i # j => q[i].start # q[j].start
Ascending(q) == \A i, j \in 1..Len(q) : i < j => q[i].start <= q[j].start

\* The number of start dates of S before d.
Rank(S, d) == Cardinality({e \in S : e < d})

\* The differences between the consecutive dates of a set of dates, in ascending order.
GapsOfDates(S) ==
    [i \in 1..(Cardinality(S) - 1) |->
        (CHOOSE d \in S : Rank(S, d) = i) - (CHOOSE d \in S : Rank(S, d) = i - 1)]

\* C7: on valid intervals with distinct start dates, the result of process_history is
\* that of every rearrangement of the input, and cycle_gaps are the differences between
\* consecutive start dates in ascending order.
C7_OrderIndependent ==
    (pc = "returned" /\ passed # <<>> /\ AllValid(passed) /\ DistinctStarts(passed)) =>
        /\ averages.kind = "ok"
        /\ averages.cycle_gaps = GapsOfDates({passed[i].start : i \in 1..Len(passed)})
        /\ Len(averages.cycle_gaps) = Len(passed) - 1
        /\ \A q \in Rearrangements(passed) :
              /\ process_history(q).ret = averages
              /\ process_history_main(q).ret = averagesMain

\* C7 witness: a list of three valid intervals given latest first has been processed.
C7_Witness ==
    /\ pc = "returned"
    /\ Len(passed) = 3
    /\ AllValid(passed) /\ DistinctStarts(passed)
    /\ passed[1].start > passed[2].start /\ passed[2].start > passed[3].start
    /\ averages.kind = "ok"

\* C8: cycle_avg is 28 for a single interval, else the ceiling of the mean of the
\* gaps, in both variants alike.
C8_CycleAverage ==
    (pc = "returned" /\ averages.kind = "ok") =>
        LET gaps == averages.cycle_gaps
            n == Len(gaps)
        IN  /\ Len(passed) = 1 => gaps = <<>> /\ averages.cycle_avg = 28
            /\ Len(passed) > 1 =>
                  /\ n = Len(passed) - 1
                  /\ averages.cycle_avg * n >= SumSeq(gaps)
                  /\ (averages.cycle_avg - 1) * n < SumSeq(gaps)
            /\ averagesMain.kind = "ok"
            /\ averagesMain.cycle_avg = averages.cycle_avg

\* C8 witness: two gaps whose mean is not whole, on durations the two bleed policies
\* round differently.
C8_Witness ==
    /\ pc = "returned"
    /\ averages.kind = "ok"
    /\ Len(averages.cycle_gaps) = 2
    /\ SumSeq(averages.cycle_gaps) % 2 = 1
    /\ averages.bleed_avg # averagesMain.bleed_avg

\* C9 as stated: after any call the caller's collection holds the same intervals in
\* the same order as before the call.
C9_NeverMutates == pc = "returned" => history_data = passed

\* C9 amended: a call keeps the intervals and only reorders them: a non-empty
\* collection is left in the stable ascending order of its start dates, whatever the
\* call returns or raises, and an empty one is left as it is.
C9_OnlySorts ==
    pc = "returned" =>
        /\ Len(history_data) = Len(passed)
        /\ Ascending(history_data)
        /\ \E f \in [1..Len(passed) -> 1..Len(passed)] :
              /\ \A i, j \in 1..Len(passed) : i # j => f[i] # f[j]
              /\ \A i \in 1..Len(passed) : history_data[i] = passed[f[i]]
              /\ \A i, j \in 1..Len(passed) :
                    (i < j /\ history_data[i].start = history_data[j].start) => f[i] < f[j]
        /\ Ascending(passed) => history_data = passed

\* C9 witness: a call that failed validation has reordered the caller's list.
C9_Witness ==
    /\ pc = "returned"
    /\ averages.kind = "error"
    /\ history_data # passed

(***************************************************************************)
(* Properties of predict (SpecPredict)                                     *)
(***************************************************************************)

PhaseNames == <<"Bleed", "PowerWeek", "Crash1", "Nurture", "Crash2">>

\* The five phases of a result are laid out one after the other from start and fill
\* exactly rounded_cycle days.
Contiguous(r, start) ==
    LET t == r.timeline
    IN  /\ Len(t) = 5
        /\ \A i \in 1..5 : t[i].Phase = PhaseNames[i]
        /\ t[1].Start = start
        /\ \A i \in 2..5 : t[i].Start = t[i - 1].End + 1
        /\ \A i \in 1..5 : t[i].End = (t[i].Start + t[i].Days) - 1
        /\ \A i, j \in 1..5 : i # j => (t[i].Start..t[i].End) \cap (t[j].Start..t[j].End) = {}
        /\ t[1].Days + t[2].Days + t[3].Days + t[4].Days + t[5].Days = r.rounded_cycle

\* C1: in both variants an accepted input yields the phases Bleed, PowerWeek, Crash1,
\* Nurture, Crash2 in that order, Bleed starting on start_date, each next phase the day
\* after the previous end, End = Start + Days - 1, no date shared, Days summing to
\* rounded_cycle.
C1_PhasesContiguous ==
    pc = "returned" =>
        /\ prediction.kind = "ok" => Contiguous(prediction, p_start)
        /\ predictionMain.kind = "ok" => Contiguous(predictionMain, p_start)

\* C1 witness: both variants have accepted an input with the shortest Power Week.
C1_Witness ==
    /\ pc = "returned"
    /\ prediction.kind = "ok" /\ predictionMain.kind = "ok"
    /\ prediction.power_week = 5
    /\ prediction.rounded_cycle = 21

\* The rounded values predict worked with, accepted or not.
BleedOf(r) == IF r.kind = "ok" THEN r.rounded_bleed ELSE r.bleed
CycleOf(r) == IF r.kind = "ok" THEN r.rounded_cycle ELSE r.cycle

\* The cap table of the claim.
CapFor(cycle) == IF cycle >= 26 THEN 10 ELSE cycle - 16

ToReject(bleed, cycle) ==
    \/ bleed < 3 \/ bleed > 10
    \/ cycle < 21 \/ cycle > 35
    \/ bleed > CapFor(cycle)

\* C2: predict raises exactly when the rounded bleed is outside 3..10, the rounded
\* cycle (the ceiling of the input) outside 21..35, or the rounded bleed above the cap
\* of the rounded cycle; cycle 21 with bleed 6 is rejected.
C2_ValidationExact ==
    pc = "returned" =>
        /\ prediction.kind \in {"ok", "error"}
        /\ predictionMain.kind \in {"ok", "error"}
        /\ prediction.kind = "error" <=> ToReject(BleedOf(prediction), CycleOf(prediction))
        /\ predictionMain.kind = "error"
              <=> ToReject(BleedOf(predictionMain), CycleOf(predictionMain))
        /\ CycleOf(prediction) = (p_cycle + 9) \div 10
        /\ CycleOf(predictionMain) = (p_cycle + 9) \div 10
        /\ BleedOf(predictionMain) = p_bleed \div 10
        /\ BleedOf(prediction) \in {p_bleed \div 10, (p_bleed \div 10) + 1}
        /\ (BleedOf(prediction) = 6 /\ CycleOf(prediction) = 21) => prediction.kind = "error"

\* C2 witness: cycle 21 with bleed 6 has been rejected for exceeding the cap.
C2_Witness ==
    /\ pc = "returned"
    /\ prediction.kind = "error"
    /\ prediction.error = "max bleed"
    /\ prediction.bleed = 6 /\ prediction.cycle = 21

\* C4: in the rich variant with power_week_days <= 5 the fertile days are the dates of
\* the PowerWeek phase from Start to End, ascending, power_week_days of them.
C4_PowerWeekRule ==
    (pc = "returned" /\ prediction.kind = "ok" /\ prediction.power_week <= 5) =>
        LET pw == prediction.timeline[2]
        IN  /\ Len(prediction.baby_days) = prediction.power_week
            /\ \A i \in 1..Len(prediction.baby_days) :
                  prediction.baby_days[i] = pw.Start + (i - 1)
            /\ {prediction.baby_days[i] : i \in 1..Len(prediction.baby_days)}
                  = pw.Start..pw.End

\* C4 witness: a result with a Power Week of 5 days.
C4_Witness ==
    /\ pc = "returned"
    /\ prediction.kind = "ok"
    /\ prediction.power_week = 5
    /\ Len(prediction.baby_days) = 5

\* C5: in the rich variant with power_week_days > 5 the fertile days are the six dates
\* main_ovulation_date - 4 .. main_ovulation_date + 1 of the simple variant, ascending,
\* less exactly those on or before the end of the Bleed phase.
C5_StandardRule ==
    (pc = "returned" /\ prediction.kind = "ok" /\ prediction.power_week > 5) =>
        LET m == p_start + (((prediction.rounded_bleed + prediction.power_week) - 2) - 1)
            bleed_end == prediction.timeline[1].End
            S == {d \in (m - 4)..(m + 1) : d > bleed_end}
            days == prediction.baby_days
        IN  /\ prediction.main_date = m
            /\ Len(days) = Cardinality(S)
            /\ \A i \in 1..Len(days) : days[i] \in S
            /\ \A i, j \in 1..Len(days) : i < j => days[i] < days[j]
            /\ (predictionMain.kind = "ok"
                  /\ predictionMain.rounded_bleed = prediction.rounded_bleed) =>
                  /\ predictionMain.baby_days = <<m - 4, m - 3, m - 2, m - 1, m, m + 1>>
                  /\ \A i \in 1..6 :
                        predictionMain.baby_days[i] > bleed_end
                            <=> \E j \in 1..Len(days) : days[j] = predictionMain.baby_days[i]

\* C5 witness: a Power Week of 6 days, where the first of the six dates is the last
\* bleed day and has been dropped.
C5_Witness ==
    /\ pc = "returned"
    /\ prediction.kind = "ok" /\ predictionMain.kind = "ok"
    /\ predictionMain.rounded_bleed = prediction.rounded_bleed
    /\ prediction.power_week = 6
    /\ Len(prediction.baby_days) = 5
    /\ predictionMain.baby_days[1] = prediction.timeline[1].End

(***************************************************************************)
(* Properties of the session history (Spec)                                *)
(***************************************************************************)

\* C10: the session's history is in ascending start-date order wherever it is read
\* after an insertion: in the cycle table displayed and at the call of process_history
\* (which is handed the list the table was built from).
C10_KeptSorted ==
    /\ Ascending(history)
    /\ \A i, j \in 1..Len(display_data) :
          i < j => display_data[i].Start <= display_data[j].Start

(***************************************************************************)
(* The shortest Power Week (SpecPredict)                                   *)
(***************************************************************************)

\* The widget values offered to predict.
BleedInputs == ((MinBleed - Margin) * 10)..((MaxBleed + Margin) * 10)
CycleInputs == ((MinCycle - Margin) * 10)..((MaxCycle + Margin) * 10)

\* C11 as stated: for the start date chosen, some bleed and cycle pass all of
\* predict's validation and yield a PowerWeek phase of zero or negative duration.
C11_DegeneratePowerWeekExists ==
    \E b \in BleedInputs, c \in CycleInputs :
        \/ LET r == predict(p_start, WidgetFloat[b], WidgetFloat[c])
           IN  r.kind = "ok" /\ (r.power_week <= 0 \/ r.timeline[2].Days <= 0)
        \/ LET r == predict_main(p_start, WidgetFloat[b], WidgetFloat[c])
           IN  r.kind = "ok" /\ (r.power_week <= 0 \/ r.timeline[2].Days <= 0)

\* C11 amended: every input that passes predict's validation has
\* power_week_days = cycle - (bleed + 2 + 6 + 3) >= 5, in both variants, so the
\* PowerWeek phase of a returned timeline always lasts at least 5 days.
C11_PowerWeekAtLeastFive ==
    pc = "returned" =>
        /\ prediction.kind = "ok" =>
              /\ prediction.power_week
                    = prediction.rounded_cycle - (prediction.rounded_bleed + 2 + 6 + 3)
              /\ prediction.power_week >= 5
              /\ prediction.timeline[2].Days >= 5
              /\ prediction.timeline[2].End >= prediction.timeline[2].Start + 4
        /\ predictionMain.kind = "ok" =>
              /\ predictionMain.power_week
                    = predictionMain.rounded_cycle - (predictionMain.rounded_bleed + 2 + 6 + 3)
              /\ predictionMain.power_week >= 5
              /\ predictionMain.timeline[2].Days >= 5

\* C11 witness: the longest bleed on the shortest cycle that allows it has been
\* accepted, with the shortest Power Week there is.
C11_Witness ==
    /\ pc = "returned"
    /\ prediction.kind = "ok"
    /\ prediction.rounded_bleed = 10 /\ prediction.rounded_cycle = 26
    /\ prediction.power_week = 5

(***************************************************************************)
(* The fertile days of the rich variant (SpecPredict)                      *)
(***************************************************************************)

\* C12 as stated: some input accepted by predict leaves no fertile day at all (the
\* export then carries two empty strings and the page shows the warning).
C12_EmptyWindowExists ==
    \E b \in BleedInputs, c \in CycleInputs :
        LET r == predict(p_start, WidgetFloat[b], WidgetFloat[c])
        IN  /\ r.kind = "ok"
            /\ r.baby_days = <<>>
            /\ FertileView(r).kind = "warning"

\* C12 amended: dropping the dates on or before the end of the bleed never empties the
\* fertile days: an accepted input leaves 5 dates when the Power Week lasts 5 or 6
\* days and all 6 otherwise, the export's ovulation_days run from the first to the last
\* of them, and the page shows the dates, never the warning.
C12_WindowNeverEmpty ==
    (pc = "returned" /\ prediction.kind = "ok") =>
        LET days == prediction.baby_days
        IN  /\ Len(days) = IF prediction.power_week <= 6 THEN 5 ELSE 6
            /\ prediction.json_output.ovulation_days.start = IsoDate(days[1])
            /\ prediction.json_output.ovulation_days.end = IsoDate(days[Len(days)])
            /\ fertile_view.kind = "columns"
            /\ Len(fertile_view.cols) = Len(days)

\* C12 witness: a Power Week of 6 days, the one case where a date is dropped, has left
\* 5 fertile days on the page.
C12_Witness ==
    /\ pc = "returned"
    /\ prediction.kind = "ok"
    /\ prediction.power_week = 6
    /\ prediction.logic_used = "Standard Rule"
    /\ fertile_view.kind = "columns"
    /\ Len(fertile_view.cols) = 5

\* C14: in the rich variant the main ovulation date of an accepted input lies in the
\* PowerWeek phase, after the end of the bleed and not after the end of the Power Week,
\* and is one of the fertile days, under either rule; the page marks it.
C14_MainDateInWindow ==
    (pc = "returned" /\ prediction.kind = "ok") =>
        LET bleed_end == prediction.timeline[1].End
            pw == prediction.timeline[2]
            days == prediction.baby_days
        IN  /\ prediction.main_date > bleed_end
            /\ prediction.main_date >= pw.Start
            /\ prediction.main_date <= pw.End
            /\ \E i \in 1..Len(days) : days[i] = prediction.main_date
            /\ prediction.logic_used
                  = IF prediction.power_week <= 5 THEN "Power Week Rule" ELSE "Standard Rule"
            /\ fertile_view.kind = "columns"
            /\ Cardinality({i \in 1..Len(fertile_view.cols) : fertile_view.cols[i].is_main}) = 1

\* C14 witness: under the Power Week rule the main ovulation date is the third of the
\* five fertile days shown.
C14_Witness ==
    /\ pc = "returned"
    /\ prediction.kind = "ok"
    /\ prediction.logic_used = "Power Week Rule"
    /\ prediction.baby_days[3] = prediction.main_date
    /\ fertile_view.kind = "columns"
    /\ fertile_view.cols[3].is_main

(***************************************************************************)
(* The intervals of the session history (Spec)                             *)
(***************************************************************************)

\* What C13 says of every state of the page.
C13_EveryState ==
    /\ \A i \in 1..Len(history) : (history[i].end - history[i].start) + 1 \in 3..10
    /\ page.result.kind = IF history = <<>> THEN "warning" ELSE "ok"
    /\ history # <<>> =>
          /\ process_history(history).ret.kind = "ok"
          /\ process_history_main(history).ret.kind = "ok"
          /\ page.result.bleed_avg \in 3..10
          /\ process_history_main(history).ret.bleed_avg \in 3..10
          /\ page.result.total_cycles = Len(history)

\* What C13 says of every step: a rejected submission leaves the history as it was, and
\* the history grows only by an interval that validate_single_entry accepts.
C13_EveryStep ==
    /\ page'.msg \in {"too short", "too long"} => history' = history
    /\ Len(history') > Len(history) =>
          /\ page'.msg = "Added!"
          /\ Len(history') = Len(history) + 1
          /\ \E i \in 1..Len(history') :
                /\ validate_single_entry(history'[i].start, history'[i].end).ok
                /\ \A e \in Range(history) :
                      Cardinality({j \in 1..Len(history') : history'[j] = e})
                         >= Cardinality({j \in 1..Len(history) : history[j] = e})

\* C13: whatever is submitted or reset, every interval of the session history lasts
\* 3..10 days, an interval is added only when validate_single_entry accepts it, a
\* rejected submission leaves the history as it was, and process_history on the session
\* history never raises and reports a bleed_avg in 3..10 when the history is not empty.
C13_HistoryValid == []C13_EveryState /\ [][C13_EveryStep]_vars

\* C13 witness: a submission has been rejected while two intervals were held, and the
\* averages of those two are shown.
C13_Witness ==
    /\ Len(history) = 2
    /\ page.msg = "too long"
    /\ page.result.kind = "ok"
    /\ page.result.bleed_avg \in 3..10

====
